---- MODULE Spec2Model ----
(***************************************************************************)
(* Model of the Docker image promotion scripts:                            *)
(*   scripts/fabfile.py   - tag_images / process_image / retry_command     *)
(*   scripts/tag_utils.py - main / retry / validate / promote              *)
(*   scripts/send_email.py - send_email_notification / create_email_body   *)
(* One behaviour is one run of one script.  Every external command         *)
(* (docker pull / tag / push / manifest inspect) either returns or raises; *)
(* the outcome is chosen nondeterministically at each invocation.          *)
(***************************************************************************)
EXTENDS Integers, Sequences, FiniteSets, TLC

(* ---------------- bounds of the model ---------------- *)
MaxImages == 2      \* longest comma-separated image list handed to tag_images
MaxFail == 3        \* most failing command invocations in one fabfile run

(* ---------------- program constants ---------------- *)
RETRIES == 3        \* fabfile.py: retry_command(..., retries=3)
RETRY_COUNT == 3    \* tag_utils.py: RETRY_COUNT
RETRY_DELAY == 5    \* tag_utils.py: RETRY_DELAY

None == "<None>"    \* Python None (a tag parameter that was not passed)

ImageNames == {"svc", "all"}
SourceTagValues == {None, "v1"}        \* missing or given
DestinationTagValues == {"", "v2"}     \* empty or given
DryRunValues == {"YES", "NO"}
ParallelLimits == {1, 2}
TagTypes == {"latest_to_stable", "custom_to_latest", "custom_to_custom", "bogus"}
Statuses == {"SUCCESS", "DRY_RUN_SUCCESS", "FAILURE"}

VARIABLES
  script,             \* which script this run executes
  \* ---- fabfile.py: arguments of tag_images
  images, dry_run, parallel_limit, tag_type, source_tag, destination_tag,
  custom_source_tag,
  failCap,            \* failing command invocations the environment produces at most
  \* ---- fabfile.py: tag_images locals
  mainPc,             \* position of the main thread inside tag_images
  tasks,              \* the task tuples built at lines 126-128
  all_results,        \* list appended to at line 136
  results_file,       \* content written by json.dump at line 140
  \* ---- fabfile.py: ThreadPoolExecutor
  queue,              \* submitted work items not yet taken by a worker
  numThreads,         \* worker threads started so far
  worker,             \* worker thread -> index of the task it runs (0: idle)
  \* ---- fabfile.py: one process_image call per task
  pc,                 \* "pending","queued","pull","tag","push","done"
  attempt,            \* loop variable of the running retry_command
  result,             \* the result dict of process_image
  log,                \* commands handed to local(), with their outcome
  sleeps,             \* arguments of time.sleep, in order
  failures,           \* failed command invocations of this run so far
  \* ---- tag_utils.py
  tuArgs,             \* parsed command line
  tuPc,               \* "off","start","validate","promote","completed","raised"
  src_tag, dest_tag, tuDryRun,
  tuAttempt,          \* loop variable i of the running retry
  tuCalls,            \* calls of the retried functions, with their outcome
  tuLog,              \* commands handed to run_cmd, with their outcome
  tuSleeps,           \* arguments of time.sleep, in order
  \* ---- send_email.py
  emArgs,             \* parsed command line: status, results_file, log_file
  emTemplates,        \* the files present in ../templates
  emFile,             \* what json.load gives for a well-formed results file
  emPc,               \* "off","load","body","attach","send","returned","raised"
  emResults,          \* local results of send_email_notification
  emSubject, emBody,  \* what create_email_body returned
  emParts,            \* parts attached to msg, in order
  emSendAttempts,     \* executions of the send block (lines 163-169)
  emDelivery,         \* "none", "sent" or "failed"
  emStdout            \* lines printed, in order

fabInputs == <<images, dry_run, parallel_limit, tag_type, source_tag,
               destination_tag, custom_source_tag, failCap>>
fabMain == <<mainPc, tasks, all_results, results_file>>
fabPool == <<queue, numThreads, worker>>
fabProc == <<pc, attempt, result, log, sleeps, failures>>
tuVars == <<tuArgs, tuPc, src_tag, dest_tag, tuDryRun, tuAttempt, tuCalls,
            tuLog, tuSleeps>>
emVars == <<emArgs, emTemplates, emFile, emPc, emResults, emSubject, emBody,
            emParts, emSendAttempts, emDelivery, emStdout>>
vars == <<script, fabInputs, fabMain, fabPool, fabProc, tuVars, emVars>>

(* ---------------- helpers ---------------- *)
\* the outcomes of command c in the log lg, in order
OutcomesOf(lg, c) ==
  LET sel == SelectSeq(lg, LAMBDA e : e.cmd = c)
  IN  [k \in 1..Len(sel) |-> sel[k].ok]

Invocations(lg, c) == Len(OutcomesOf(lg, c))

RECURSIVE Pow2(_)
Pow2(n) == IF n = 0 THEN 1 ELSE 2 * Pow2(n - 1)

\* str(e) of the exception raised by the failing command
ErrorOf(c) == "error: docker " \o c

NoResult == [image |-> "", source |-> "", destination |-> "",
             status |-> "UNSET", message |-> ""]

(* ---------------- fabfile.py ---------------- *)

\* list.remove(x): drop the first occurrence of x
RECURSIVE RemoveFirst(_, _)
RemoveFirst(s, x) ==
  IF s = <<>> THEN <<>>
  ELSE IF Head(s) = x THEN Tail(s)
  ELSE <<Head(s)>> \o RemoveFirst(Tail(s), x)

\* lines 106-108
final_images(imgs) ==
  IF (\E k \in 1..Len(imgs) : imgs[k] = "all") /\ Len(imgs) > 1
  THEN RemoveFirst(imgs, "all") ELSE imgs

\* lines 110-120: the source tag chosen for tag_type
SourceFor(tt, st, cst) ==
  IF tt = "latest_to_stable" THEN "latest"
  ELSE IF tt = "custom_to_latest" THEN cst
  ELSE st

\* lines 110-120: the destination tag chosen for tag_type
DestinationFor(tt, dt) ==
  IF tt = "latest_to_stable" THEN "stable"
  ELSE IF tt = "custom_to_latest" THEN "latest"
  ELSE dt

\* variant: gives up one attempt early (off-by-one in the last-attempt test)
retry_command_early(att, ok, retries) ==
  IF ok THEN "return"
  ELSE IF att + 1 >= retries - 1 THEN "raise"
  ELSE "sleep"

\* variant: the last failure is swallowed and the call returns
retry_command_swallow(att, ok, retries) ==
  IF ok THEN "return"
  ELSE IF att + 1 = retries THEN "return"
  ELSE "sleep"

\* variant: one attempt more than retries before giving up
retry_command_extra(att, ok, retries) ==
  IF ok THEN "return"
  ELSE IF att = retries THEN "raise"
  ELSE "sleep"

\* retry_command, one pass of the loop body whose command returned (ok) or
\* raised (~ok): the call returns True, re-raises, or sleeps and loops
retry_command(att, ok, retries) ==
  IF ok THEN "return"
  ELSE IF att + 1 = retries THEN "raise"
  ELSE "sleep"

\* retry_command line 47: the delay before the next attempt
retry_delay(att) == Pow2(att)

\* variant: the test of the dry-run flag is inverted
push_enabled_inverted(dr) == dr # "NO"

\* variant: the dry-run flag is ignored
push_enabled_always(dr) == TRUE

\* process_image line 78: the push step runs only when dry_run is 'NO'
push_enabled(dr) == dr = "NO"

\* variant: a failed push is followed by an untag of the destination
process_image_rollback(c, o, dr, res) ==
  IF o = "raise"
  THEN [pc |-> IF c = "push" THEN "untag" ELSE "done",
        result |-> [res EXCEPT !.status = "FAILURE", !.message = ErrorOf(c)]]
  ELSE IF c = "pull" THEN [pc |-> "tag", result |-> res]
  ELSE IF c = "tag"
  THEN IF push_enabled(dr)
       THEN [pc |-> "push", result |-> res]
       ELSE [pc |-> "done",
             result |-> [res EXCEPT !.status = "DRY_RUN_SUCCESS",
                           !.message = "Image successfully tagged (Dry Run)."]]
  ELSE [pc |-> "done",
        result |-> [res EXCEPT !.status = "SUCCESS",
                      !.message = "Image successfully tagged and pushed."]]

\* variant: the status is set to SUCCESS before the push has run
process_image_early_success(c, o, dr, res) ==
  IF o = "raise"
  THEN [pc |-> "done", result |-> [res EXCEPT !.message = ErrorOf(c)]]
  ELSE IF c = "pull" THEN [pc |-> "tag", result |-> res]
  ELSE IF c = "tag"
  THEN IF push_enabled(dr)
       THEN [pc |-> "push",
             result |-> [res EXCEPT !.status = "SUCCESS",
                           !.message = "Image successfully tagged and pushed."]]
       ELSE [pc |-> "done",
             result |-> [res EXCEPT !.status = "DRY_RUN_SUCCESS",
                           !.message = "Image successfully tagged (Dry Run)."]]
  ELSE [pc |-> "done", result |-> res]

\* process_image lines 69-92: where the call stands after retry_command for
\* step c ended with outcome o ("return" or "raise")
process_image(c, o, dr, res) ==
  IF o = "raise"
  THEN [pc |-> "done",
        result |-> [res EXCEPT !.status = "FAILURE", !.message = ErrorOf(c)]]
  ELSE IF c = "pull" THEN [pc |-> "tag", result |-> res]
  ELSE IF c = "tag"
  THEN IF push_enabled(dr)
       THEN [pc |-> "push", result |-> res]
       ELSE [pc |-> "done",
             result |-> [res EXCEPT !.status = "DRY_RUN_SUCCESS",
                           !.message = "Image successfully tagged (Dry Run)."]]
  ELSE [pc |-> "done",
        result |-> [res EXCEPT !.status = "SUCCESS",
                      !.message = "Image successfully tagged and pushed."]]

\* variant: one thread per submitted task, max_workers ignored
adjust_thread_count_unbounded(n, max_workers) == n + 1

\* ThreadPoolExecutor(max_workers).submit: a thread is started only while
\* fewer than max_workers exist
adjust_thread_count(n, max_workers) ==
  IF n < max_workers THEN n + 1 ELSE n

\* variant: all() where any() is meant
any_failure_all(results) ==
  \A k \in 1..Len(results) : results[k].status = "FAILURE"

\* line 145
any_failure(results) ==
  \E k \in 1..Len(results) : results[k].status = "FAILURE"

TaskIds == 1..MaxImages

\* more failures than one run can see: every step of every request failing
\* on each attempt retry_command makes, and one more
NoCap == (3 * RETRIES + 1) * MaxImages
Threads == 1..MaxImages

ImageLists == UNION {[1..n -> ImageNames] : n \in 1..MaxImages}

\* the tag parameters that tag_type reads (custom_source_tag is never passed);
\* the others keep their default None
TagInputs ==
  {[tag_type |-> tt, source_tag |-> st, destination_tag |-> dt,
    custom_source_tag |-> cst] :
     tt \in TagTypes, st \in SourceTagValues,
     dt \in DestinationTagValues \cup {None}, cst \in SourceTagValues}

UsedTagInputs ==
  {ti \in TagInputs :
     /\ (ti.tag_type # "custom_to_custom" =>
            ti.source_tag = None /\ ti.destination_tag = None)
     /\ (ti.tag_type = "custom_to_custom" =>
            ti.source_tag = "v1" /\ ti.destination_tag # None)
     /\ ti.custom_source_tag = None}

TUIdle ==
  /\ tuArgs = [strategy |-> "latest", tag1 |-> "", tag2 |-> "", dry_run |-> "NO"]
  /\ tuPc = "off"
  /\ src_tag = "" /\ dest_tag = "" /\ tuDryRun = FALSE
  /\ tuAttempt = 0 /\ tuCalls = <<>> /\ tuLog = <<>> /\ tuSleeps = <<>>

\* --status choices, and what the paths given to send_email.py point at
EmStatuses == {"SUCCESS", "FAILURE"}
ResultsFileStates == {"not_given", "absent", "json", "corrupt"}
LogFileStates == {"absent", "readable", "unreadable"}
TemplateNames == {"email_success.html", "email_failure.html"}
NoSubject == [subject_status |-> ""]
NoBody == [kind |-> "", name |-> "", tag_line |-> "", table |-> <<>>]

EmIdle ==
  /\ emArgs = [status |-> "SUCCESS", results_file |-> "absent", log_file |-> "absent"]
  /\ emTemplates = TemplateNames
  /\ emFile = <<>>
  /\ emPc = "off"
  /\ emResults = <<>>
  /\ emSubject = NoSubject /\ emBody = NoBody
  /\ emParts = <<>> /\ emSendAttempts = 0 /\ emDelivery = "none"
  /\ emStdout = <<>>

FabStart ==
  /\ mainPc = "start"
  /\ tasks = <<>> /\ all_results = <<>> /\ results_file = <<>>
  /\ queue = <<>> /\ numThreads = 0
  /\ worker = [t \in Threads |-> 0]
  /\ pc = [i \in TaskIds |-> "pending"]
  /\ attempt = [i \in TaskIds |-> 0]
  /\ result = [i \in TaskIds |-> NoResult]
  /\ log = [i \in TaskIds |-> <<>>]
  /\ sleeps = [i \in TaskIds |-> <<>>]
  /\ failures = 0

InitFab ==
  /\ script = "fabfile"
  /\ images \in ImageLists
  /\ dry_run \in DryRunValues
  /\ parallel_limit \in ParallelLimits
  /\ \E ti \in UsedTagInputs :
       /\ tag_type = ti.tag_type
       /\ source_tag = ti.source_tag
       /\ destination_tag = ti.destination_tag
       /\ custom_source_tag = ti.custom_source_tag
  /\ failCap = MaxFail
  /\ FabStart
  /\ TUIdle
  /\ EmIdle

\* the image lists of the runs checked for termination: one image, and two
\* requests for the same image
LiveImageLists == {<<"svc">>, <<"svc", "svc">>}

\* the runs of tag_images in which the commands may fail any number of
\* times, with a valid and an invalid tag_type
InitLive ==
  /\ script = "fabfile"
  /\ images \in LiveImageLists
  /\ dry_run \in DryRunValues
  /\ parallel_limit \in ParallelLimits
  /\ tag_type \in {"latest_to_stable", "bogus"}
  /\ source_tag = None /\ destination_tag = None /\ custom_source_tag = None
  /\ failCap = NoCap
  /\ FabStart
  /\ TUIdle
  /\ EmIdle

\* tag_images lines 103-128
BuildTasks ==
  /\ script = "fabfile" /\ mainPc = "start"
  /\ IF tag_type \in {"latest_to_stable", "custom_to_latest", "custom_to_custom"}
     THEN /\ tasks' = [k \in 1..Len(final_images(images)) |->
                         [image |-> final_images(images)[k],
                          source |-> SourceFor(tag_type, source_tag, custom_source_tag),
                          destination |-> DestinationFor(tag_type, destination_tag),
                          dry_run |-> dry_run]]
          /\ mainPc' = "submit"
     ELSE /\ tasks' = tasks
          /\ mainPc' = "value_error"
  /\ UNCHANGED <<script, emVars, fabInputs, all_results, results_file, fabPool, fabProc, tuVars>>

\* line 134: executor.submit(process_image, *task_args) for the next task
Submit ==
  /\ script = "fabfile" /\ mainPc = "submit"
  /\ \E i \in 1..Len(tasks) :
       /\ pc[i] = "pending"
       /\ \A j \in 1..(i - 1) : pc[j] # "pending"
       /\ pc' = [pc EXCEPT ![i] = "queued"]
       /\ queue' = Append(queue, i)
       /\ numThreads' = adjust_thread_count(numThreads, parallel_limit)
       /\ mainPc' = IF i = Len(tasks) THEN "collect" ELSE "submit"
  /\ UNCHANGED <<script, emVars, fabInputs, tasks, all_results, results_file, worker,
                 attempt, result, log, sleeps, failures, tuVars>>

\* a pool thread takes the next work item and enters process_image
\* (lines 55-67)
WorkerTake(t) ==
  /\ script = "fabfile"
  /\ t <= numThreads /\ worker[t] = 0
  /\ \A u \in 1..(t - 1) : worker[u] # 0     \* idle threads are interchangeable
  /\ queue # <<>>
  /\ LET i == Head(queue) IN
       /\ worker' = [worker EXCEPT ![t] = i]
       /\ queue' = Tail(queue)
       /\ pc' = [pc EXCEPT ![i] = "pull"]
       /\ attempt' = [attempt EXCEPT ![i] = 0]
       /\ result' = [result EXCEPT ![i] =
                       [image |-> tasks[i].image, source |-> tasks[i].source,
                        destination |-> tasks[i].destination,
                        status |-> "FAILURE", message |-> ""]]
  /\ UNCHANGED <<script, emVars, fabInputs, fabMain, numThreads, log, sleeps, failures,
                 tuVars>>

\* one pass of the retry_command loop for step c of the task thread t runs,
\* followed by what process_image does when retry_command returns or raises
Step(t, c) ==
  /\ script = "fabfile"
  /\ t <= numThreads /\ worker[t] # 0
  /\ LET i == worker[t] IN
       /\ pc[i] = c
       /\ \E ok \in BOOLEAN :
            /\ (~ok => failures < failCap)
            /\ failures' = IF ok THEN failures ELSE failures + 1
            /\ log' = [log EXCEPT ![i] = Append(@, [cmd |-> c, ok |-> ok])]
            /\ LET o == retry_command(attempt[i], ok, RETRIES) IN
                 IF o = "sleep"
                 THEN /\ sleeps' = [sleeps EXCEPT ![i] = Append(@, retry_delay(attempt[i]))]
                      /\ attempt' = [attempt EXCEPT ![i] = @ + 1]
                      /\ UNCHANGED <<pc, result, worker>>
                 ELSE LET n == process_image(c, o, tasks[i].dry_run, result[i]) IN
                      /\ pc' = [pc EXCEPT ![i] = n.pc]
                      /\ result' = [result EXCEPT ![i] = n.result]
                      /\ attempt' = [attempt EXCEPT ![i] = 0]
                      /\ worker' = [worker EXCEPT ![t] = IF n.pc = "done" THEN 0 ELSE i]
                      /\ UNCHANGED sleeps
  /\ UNCHANGED <<script, emVars, fabInputs, fabMain, queue, numThreads, tuVars>>

Pull(t) == Step(t, "pull")
Tag(t) == Step(t, "tag")
Push(t) == Step(t, "push")

\* variant: the results are taken as the futures complete
CollectAsCompleted ==
  /\ script = "fabfile" /\ mainPc = "collect"
  /\ \E j \in 1..Len(tasks) :
       /\ pc[j] = "done"
       /\ \A k \in 1..Len(all_results) : all_results[k] # result[j]
       /\ all_results' = Append(all_results, result[j])
       /\ mainPc' = IF Len(all_results) + 1 = Len(tasks) THEN "save" ELSE "collect"
  /\ UNCHANGED <<script, emVars, fabInputs, tasks, results_file, fabPool, fabProc, tuVars>>

\* variant: the record of a failed request is not appended
CollectSkipFailure ==
  /\ script = "fabfile" /\ mainPc = "collect"
  /\ \A k \in 1..Len(tasks) : pc[k] = "done"
  /\ all_results' = SelectSeq([k \in 1..Len(tasks) |-> result[k]],
                              LAMBDA r : r.status # "FAILURE")
  /\ mainPc' = "save"
  /\ UNCHANGED <<script, emVars, fabInputs, tasks, results_file, fabPool, fabProc, tuVars>>

\* line 136: all_results.append(future.result()) for the next future
Collect ==
  /\ script = "fabfile" /\ mainPc = "collect"
  /\ LET j == Len(all_results) + 1 IN
       /\ pc[j] = "done"
       /\ all_results' = Append(all_results, result[j])
       /\ mainPc' = IF j = Len(tasks) THEN "save" ELSE "collect"
  /\ UNCHANGED <<script, emVars, fabInputs, tasks, results_file, fabPool, fabProc, tuVars>>

\* variant: the results file is written only when nothing failed
SaveResultsUnlessFailed ==
  /\ script = "fabfile" /\ mainPc = "save"
  /\ results_file' = IF any_failure(all_results) THEN results_file ELSE all_results
  /\ mainPc' = "check"
  /\ UNCHANGED <<script, emVars, fabInputs, tasks, all_results, fabPool, fabProc, tuVars>>

\* lines 139-140
SaveResults ==
  /\ script = "fabfile" /\ mainPc = "save"
  /\ results_file' = all_results
  /\ mainPc' = "check"
  /\ UNCHANGED <<script, emVars, fabInputs, tasks, all_results, fabPool, fabProc, tuVars>>

\* lines 145-147
CheckFailure ==
  /\ script = "fabfile" /\ mainPc = "check"
  /\ mainPc' = IF any_failure(all_results) THEN "raised" ELSE "returned"
  /\ UNCHANGED <<script, emVars, fabInputs, tasks, all_results, results_file, fabPool,
                 fabProc, tuVars>>

(* ---------------- tag_utils.py ---------------- *)

\* str.upper() on the values --dry-run is given
upper(s) ==
  IF s = "yes" THEN "YES" ELSE IF s = "no" THEN "NO" ELSE s

\* retry, one pass of the loop body whose fn() returned (ok) or raised (~ok)
retry(i, ok, attempts) ==
  IF ok THEN "return"
  ELSE IF i + 1 = attempts THEN "raise"
  ELSE "sleep"

\* main lines 68-77: the source tag
SrcTagFor(a) ==
  IF a.strategy = "latest"
  THEN IF a.tag1 # "" THEN a.tag1 ELSE "latest"
  ELSE a.tag1

\* main lines 68-77: the destination tag
DestTagFor(a) ==
  IF a.strategy = "latest"
  THEN IF a.tag1 # "" THEN "latest" ELSE "stable"
  ELSE a.tag2

\* promote lines 90-92: the run_cmd calls of one promote() in which the
\* first r commands return; the next one, if any, raises
PromoteCommands == <<"pull", "tag", "push">>
promote_log(r) ==
  [k \in 1..(IF r < 3 THEN r + 1 ELSE 3) |->
     [cmd |-> PromoteCommands[k], ok |-> k <= r]]

TUArgs ==
  [strategy : {"latest", "custom"}, tag1 : {"", "v1"}, tag2 : {"", "v2"},
   dry_run : {"YES", "NO", "yes"}]

InitTU ==
  /\ script = "tag_utils"
  /\ images = <<"svc">> /\ dry_run = "NO" /\ parallel_limit = 1
  /\ tag_type = "latest_to_stable"
  /\ source_tag = None /\ destination_tag = None /\ custom_source_tag = None
  /\ failCap = MaxFail
  /\ FabStart
  /\ tuArgs \in TUArgs
  /\ tuPc = "start"
  /\ src_tag = "" /\ dest_tag = "" /\ tuDryRun = FALSE
  /\ tuAttempt = 0 /\ tuCalls = <<>> /\ tuLog = <<>> /\ tuSleeps = <<>>
  /\ EmIdle

\* main lines 54-79
TUParse ==
  /\ script = "tag_utils" /\ tuPc = "start"
  /\ tuDryRun' = (upper(tuArgs.dry_run) = "YES")
  /\ src_tag' = SrcTagFor(tuArgs)
  /\ dest_tag' = DestTagFor(tuArgs)
  /\ tuPc' = "validate"
  /\ UNCHANGED <<script, emVars, fabInputs, fabMain, fabPool, fabProc, tuArgs,
                 tuAttempt, tuCalls, tuLog, tuSleeps>>

\* what retry does after fn (a call of f) returned or raised; next is where
\* main continues when retry returns
TUAfterCall(f, ok, next) ==
  /\ tuCalls' = Append(tuCalls, [fn |-> f, ok |-> ok])
  /\ LET o == retry(tuAttempt, ok, RETRY_COUNT) IN
       IF o = "sleep"
       THEN /\ tuSleeps' = Append(tuSleeps, RETRY_DELAY)
            /\ tuAttempt' = tuAttempt + 1
            /\ tuPc' = tuPc
       ELSE /\ tuSleeps' = tuSleeps
            /\ tuAttempt' = 0
            /\ tuPc' = IF o = "raise" THEN "raised" ELSE next

\* lines 81-84: one call of validate() made by retry(validate)
TUValidate ==
  /\ script = "tag_utils" /\ tuPc = "validate"
  /\ \E ok \in BOOLEAN :
       /\ tuLog' = Append(tuLog, [cmd |-> "inspect", ok |-> ok])
       /\ TUAfterCall("validate", ok, "promote")
  /\ UNCHANGED <<script, emVars, fabInputs, fabMain, fabPool, fabProc, tuArgs,
                 src_tag, dest_tag, tuDryRun>>

\* lines 86-95: one call of promote() made by retry(promote)
TUPromote ==
  /\ script = "tag_utils" /\ tuPc = "promote"
  /\ IF tuDryRun
     THEN /\ tuLog' = tuLog
          /\ TUAfterCall("promote", TRUE, "completed")
     ELSE \E r \in 0..3 :
            /\ tuLog' = tuLog \o promote_log(r)
            /\ TUAfterCall("promote", r = 3, "completed")
  /\ UNCHANGED <<script, emVars, fabInputs, fabMain, fabPool, fabProc, tuArgs,
                 src_tag, dest_tag, tuDryRun>>

(* ---------------- send_email.py ---------------- *)

\* load_template: the text of the file, or the inline error text when the
\* file does not exist
load_template(template_name, templates) ==
  IF template_name \in templates
  THEN [kind |-> "template", name |-> template_name, tag_line |-> "{{TAG_LINE}}",
        table |-> <<"{{IMAGE_RESULTS_TABLE}}">>]
  ELSE [kind |-> "error_not_found", name |-> template_name, tag_line |-> "",
        table |-> <<>>]

\* create_results_table: one row per result
create_results_table(results) ==
  [k \in 1..Len(results) |-> results[k].status]

\* lines 122-124: str.replace of the placeholders the text contains
replace_placeholders(template, tag_line, results_table) ==
  [template EXCEPT
     !.tag_line = IF @ = "{{TAG_LINE}}" THEN tag_line ELSE @,
     !.table = IF @ = <<"{{IMAGE_RESULTS_TABLE}}">> THEN results_table ELSE @]

\* create_email_body lines 84-93: the theme chosen from args.status
theme_of(status) ==
  IF status = "SUCCESS"
  THEN [template |-> "email_success.html", subject_status |-> "SUCCESS",
        tag_line |-> "Image Promotion Completed"]
  ELSE [template |-> "email_failure.html", subject_status |-> "FAILURE",
        tag_line |-> "Image Promotion Failed"]

\* create_email_body: the pair (subject, body)
create_email_body(args, results, templates) ==
  LET th == theme_of(args.status) IN
    [subject |-> [subject_status |-> th.subject_status],
     body |-> replace_placeholders(load_template(th.template, templates),
                                   th.tag_line, create_results_table(results))]

EmFiles == {<<>>} \cup {<<[status |-> st]>> : st \in Statuses}

InitEmail ==
  /\ script = "send_email"
  /\ images = <<"svc">> /\ dry_run = "NO" /\ parallel_limit = 1
  /\ tag_type = "latest_to_stable"
  /\ source_tag = None /\ destination_tag = None /\ custom_source_tag = None
  /\ failCap = MaxFail
  /\ FabStart
  /\ TUIdle
  /\ emArgs \in [status : EmStatuses, results_file : ResultsFileStates,
                  log_file : LogFileStates]
  /\ emTemplates \in SUBSET TemplateNames
  /\ emFile \in IF emArgs.results_file = "json" THEN EmFiles ELSE {<<>>}
  /\ emPc = "load"
  /\ emResults = <<>>
  /\ emSubject = NoSubject /\ emBody = NoBody
  /\ emParts = <<>> /\ emSendAttempts = 0 /\ emDelivery = "none"
  /\ emStdout = <<>>

\* send_email_notification lines 131-139.  os.path.exists(None) raises
\* TypeError when --results-file was not given.
EmLoadResults ==
  /\ script = "send_email" /\ emPc = "load"
  /\ IF emArgs.results_file = "not_given"
     THEN /\ emPc' = "raised"
          /\ UNCHANGED <<emResults, emStdout>>
     ELSE /\ emPc' = "body"
          /\ emResults' = IF emArgs.results_file = "json" THEN emFile ELSE <<>>
          /\ emStdout' = IF emArgs.results_file = "corrupt"
                         THEN Append(emStdout, "Error reading JSON results file")
                         ELSE emStdout
  /\ UNCHANGED <<script, fabInputs, fabMain, fabPool, fabProc, tuVars, emArgs,
                 emTemplates, emFile, emSubject, emBody, emParts, emSendAttempts,
                 emDelivery>>

\* variant: a missing template aborts the notification
EmCreateBodyStrict ==
  /\ script = "send_email" /\ emPc = "body"
  /\ LET r == create_email_body(emArgs, emResults, emTemplates) IN
       IF r.body.kind = "error_not_found"
       THEN /\ emPc' = "raised"
            /\ UNCHANGED <<emSubject, emBody, emParts>>
       ELSE /\ emSubject' = r.subject
            /\ emBody' = r.body
            /\ emParts' = Append(emParts, "html")
            /\ emPc' = "attach"
  /\ UNCHANGED <<script, fabInputs, fabMain, fabPool, fabProc, tuVars, emArgs,
                 emTemplates, emFile, emResults, emSendAttempts, emDelivery,
                 emStdout>>

\* lines 142-150: the subject and body are made and the body is attached
EmCreateBody ==
  /\ script = "send_email" /\ emPc = "body"
  /\ LET r == create_email_body(emArgs, emResults, emTemplates) IN
       /\ emSubject' = r.subject
       /\ emBody' = r.body
  /\ emParts' = Append(emParts, "html")
  /\ emPc' = "attach"
  /\ UNCHANGED <<script, fabInputs, fabMain, fabPool, fabProc, tuVars, emArgs,
                 emTemplates, emFile, emResults, emSendAttempts, emDelivery,
                 emStdout>>

\* lines 153-160: the log file is attached when it exists; an error while
\* reading it is printed
EmAttachLog ==
  /\ script = "send_email" /\ emPc = "attach"
  /\ emParts' = IF emArgs.log_file = "readable" THEN Append(emParts, "log")
                ELSE emParts
  /\ emStdout' = IF emArgs.log_file = "unreadable"
                 THEN Append(emStdout, "Error attaching log file")
                 ELSE emStdout
  /\ emPc' = "send"
  /\ UNCHANGED <<script, fabInputs, fabMain, fabPool, fabProc, tuVars, emArgs,
                 emTemplates, emFile, emResults, emSubject, emBody,
                 emSendAttempts, emDelivery>>

\* lines 162-171: the send block runs once; when it raises, the exception is
\* caught and printed, and the function returns as it does after a delivery
EmSend ==
  /\ script = "send_email" /\ emPc = "send"
  /\ emSendAttempts' = emSendAttempts + 1
  /\ \E ok \in BOOLEAN :
       /\ emDelivery' = IF ok THEN "sent" ELSE "failed"
       /\ emStdout' = IF ok THEN emStdout \o <<"Successfully generated and (mock) sent email",
                                               "Email Subject">>
                      ELSE Append(emStdout, "Failed to send email")
  /\ emPc' = "returned"
  /\ UNCHANGED <<script, fabInputs, fabMain, fabPool, fabProc, tuVars, emArgs,
                 emTemplates, emFile, emResults, emSubject, emBody, emParts>>

Init == InitFab \/ InitTU \/ InitEmail

Next ==
  \/ BuildTasks
  \/ Submit
  \/ \E t \in Threads : WorkerTake(t)
  \/ \E t \in Threads : Pull(t)
  \/ \E t \in Threads : Tag(t)
  \/ \E t \in Threads : Push(t)
  \/ Collect
  \/ SaveResults
  \/ CheckFailure
  \/ TUParse
  \/ TUValidate
  \/ TUPromote
  \/ EmLoadResults
  \/ EmCreateBody
  \/ EmAttachLog
  \/ EmSend

Spec == Init /\ [][Next]_vars

\* tag_images alone
NextFab ==
  \/ BuildTasks
  \/ Submit
  \/ \E t \in Threads : WorkerTake(t)
  \/ \E t \in Threads : Pull(t)
  \/ \E t \in Threads : Tag(t)
  \/ \E t \in Threads : Push(t)
  \/ Collect
  \/ SaveResults
  \/ CheckFailure

\* the main thread runs whenever it can (future.result() returns once the
\* future is done), and every pool thread is scheduled: it takes queued work
\* and the command it started returns or raises
MainThread == BuildTasks \/ Submit \/ Collect \/ SaveResults \/ CheckFailure
WorkerThread(t) == WorkerTake(t) \/ Pull(t) \/ Tag(t) \/ Push(t)

FairSpec ==
  /\ InitLive
  /\ [][NextFab]_vars
  /\ WF_vars(MainThread)
  /\ \A t \in Threads : WF_vars(WorkerThread(t))


(* ======================= properties ======================= *)

Running(i) == pc[i] \in {"pull", "tag", "push"}
Finished(i) == pc[i] = "done"
Collected == script = "fabfile" /\ mainPc \in {"save", "check", "returned", "raised"}
AllFalse(outs) == \A k \in 1..Len(outs) : ~outs[k]
HasTrue(outs) == \E k \in 1..Len(outs) : outs[k]
Succeeded(lg, c) == HasTrue(OutcomesOf(lg, c))
SameRequest(a, b) ==
  a.image = b.image /\ a.source = b.source /\ a.destination = b.destination

\* the outcomes of the calls of function f recorded in cl, in order
CallsOf(cl, f) ==
  LET sel == SelectSeq(cl, LAMBDA e : e.fn = f)
  IN  [k \in 1..Len(sel) |-> sel[k].ok]

\* C1: every request handed to the pool contributes exactly one record to
\* all_results, with status SUCCESS, DRY_RUN_SUCCESS or FAILURE: there are
\* never more records than requests, and once collection is over each
\* request (duplicates counted) has as many records as it was submitted.
C1_OneResultPerRequest ==
  script = "fabfile" =>
    /\ Len(all_results) <= Len(tasks)
    /\ \A k \in 1..Len(all_results) : all_results[k].status \in Statuses
    /\ Collected =>
         /\ Len(tasks) = Len(final_images(images))
         /\ Len(all_results) = Len(tasks)
         /\ \A k \in 1..Len(tasks) :
              Cardinality({j \in 1..Len(all_results) : SameRequest(all_results[j], tasks[k])})
                = Cardinality({j \in 1..Len(tasks) : SameRequest(tasks[j], tasks[k])})

\* two requests for the same image, one failed and one not, both collected
C1_Witness ==
  /\ Collected /\ Len(tasks) = 2
  /\ tasks[1].image = tasks[2].image
  /\ all_results[1].status = "FAILURE"
  /\ all_results[2].status # "FAILURE"

\* C2: a request with dry-run set never has the push command invoked,
\* whatever the outcomes of the other commands and however often they are
\* retried (both scripts).
C2_DryRunNeverPushes ==
  /\ script = "fabfile" =>
       \A i \in 1..Len(tasks) :
         tasks[i].dry_run = "YES" => Invocations(log[i], "push") = 0
  /\ script = "tag_utils" =>
       (tuArgs.dry_run \in {"YES", "yes"} => Invocations(tuLog, "push") = 0)

\* a dry-run request that needed retries and finished
C2_Witness ==
  /\ script = "fabfile"
  /\ \E i \in 1..Len(tasks) :
       /\ tasks[i].dry_run = "YES" /\ Finished(i)
       /\ OutcomesOf(log[i], "pull") = <<FALSE, TRUE>>
       /\ OutcomesOf(log[i], "tag") = <<FALSE, TRUE>>

\* the retry discipline of one retried unit whose outcomes so far are outs:
\* at most max invocations, none after a success, exhausted (max failures)
\* exactly when the failure has propagated, and still being retried while it
\* has failed fewer than max times
RetryExact(outs, max, propagated, retrying) ==
  /\ Len(outs) <= max
  /\ \A k \in 1..(Len(outs) - 1) : ~outs[k]
  /\ (Len(outs) = max /\ AllFalse(outs)) <=> propagated
  /\ (Len(outs) > 0 /\ Len(outs) < max /\ AllFalse(outs)) => retrying

\* C3: a step that fails on every attempt is invoked exactly max-attempts
\* (3) times and then its failure propagates; a step that first succeeds on
\* attempt k is invoked exactly k times (retry_command and retry).
C3_RetryBound ==
  /\ script = "fabfile" =>
       \A i \in 1..Len(tasks) : \A c \in {"pull", "tag", "push"} :
         RetryExact(OutcomesOf(log[i], c), 3,
                    Finished(i) /\ result[i].status = "FAILURE"
                      /\ result[i].message = ErrorOf(c),
                    pc[i] = c)
  /\ script = "tag_utils" =>
       \A f \in {"validate", "promote"} :
         RetryExact(CallsOf(tuCalls, f), 3,
                    tuPc = "raised" /\ tuCalls[Len(tuCalls)].fn = f,
                    tuPc = f)

\* one step succeeded first time, the next exhausted its three attempts
C3_Witness ==
  /\ script = "fabfile"
  /\ \E i \in 1..Len(tasks) :
       /\ OutcomesOf(log[i], "pull") = <<TRUE>>
       /\ OutcomesOf(log[i], "tag") = <<FALSE, FALSE, FALSE>>
       /\ Finished(i)

\* every entry c of lg comes after a successful entry d
PrecededBySuccess(lg, c, d) ==
  \A k \in 1..Len(lg) :
    lg[k].cmd = c => \E j \in 1..(k - 1) : lg[j].cmd = d /\ lg[j].ok

Exhausted(outs) == Len(outs) = 3 /\ AllFalse(outs)

\* C4: each of pull, retag and push is retried on its own: no step is invoked
\* again after it has succeeded, and with pull and retag succeeding first
\* time and push succeeding on its third attempt the request has 1 pull,
\* 1 tag and 3 push invocations and ends in success (both scripts).
C4_StepsRetriedIndependently ==
  /\ script = "fabfile" =>
       \A i \in 1..Len(tasks) :
         /\ \A c \in {"pull", "tag", "push"} :
              \A k \in 1..(Invocations(log[i], c) - 1) : ~OutcomesOf(log[i], c)[k]
         /\ (Finished(i) /\ OutcomesOf(log[i], "push") = <<FALSE, FALSE, TRUE>>
               /\ Head(OutcomesOf(log[i], "pull")) /\ Head(OutcomesOf(log[i], "tag")))
            => /\ Invocations(log[i], "pull") = 1
               /\ Invocations(log[i], "tag") = 1
               /\ result[i].status = "SUCCESS"
  /\ script = "tag_utils" =>
       /\ \A c \in {"pull", "tag", "push"} :
            \A k \in 1..(Invocations(tuLog, c) - 1) : ~OutcomesOf(tuLog, c)[k]
       /\ (tuPc = "completed" /\ OutcomesOf(tuLog, "push") = <<FALSE, FALSE, TRUE>>)
          => /\ Invocations(tuLog, "pull") = 1
             /\ Invocations(tuLog, "tag") = 1

\* C5: the steps run in the order pull, retag, push and an exhausted step
\* ends the request: retag is invoked only after a successful pull, push only
\* after a successful retag, nothing is invoked after a step has failed three
\* times, and a pull that failed on all attempts gives a failure with no tag
\* and no push invocation (both scripts; in tag_utils.py the existence check
\* precedes the pull and a failure is the exception leaving main).
C5_StepOrder ==
  /\ script = "fabfile" =>
       \A i \in 1..Len(tasks) :
         /\ PrecededBySuccess(log[i], "tag", "pull")
         /\ PrecededBySuccess(log[i], "push", "tag")
         /\ \A c \in {"pull", "tag", "push"} :
              Exhausted(OutcomesOf(log[i], c)) =>
                /\ Finished(i) /\ result[i].status = "FAILURE"
                /\ log[i][Len(log[i])] = [cmd |-> c, ok |-> FALSE]
         /\ Exhausted(OutcomesOf(log[i], "pull")) =>
              Invocations(log[i], "tag") = 0 /\ Invocations(log[i], "push") = 0
  /\ script = "tag_utils" =>
       /\ PrecededBySuccess(tuLog, "pull", "inspect")
       /\ \A k \in 1..Len(tuLog) :
            /\ tuLog[k].cmd = "tag" => k > 1 /\ tuLog[k - 1] = [cmd |-> "pull", ok |-> TRUE]
            /\ tuLog[k].cmd = "push" => k > 1 /\ tuLog[k - 1] = [cmd |-> "tag", ok |-> TRUE]
       /\ Exhausted(OutcomesOf(tuLog, "inspect")) =>
            tuPc = "raised" /\ Len(tuLog) = 3
       /\ (tuPc \in {"completed", "raised"} /\ Invocations(tuLog, "pull") > 0
             /\ AllFalse(OutcomesOf(tuLog, "pull")))
          => /\ tuPc = "raised"
             /\ Invocations(tuLog, "tag") = 0 /\ Invocations(tuLog, "push") = 0

\* the pull failed three times: the request failed without tag or push
C5_Witness ==
  /\ script = "fabfile"
  /\ \E i \in 1..Len(tasks) :
       /\ Finished(i) /\ result[i].status = "FAILURE"
       /\ log[i] = <<[cmd |-> "pull", ok |-> FALSE], [cmd |-> "pull", ok |-> FALSE],
                     [cmd |-> "pull", ok |-> FALSE]>>

\* C6: the status of a finished request is determined by the step outcomes
\* and the dry-run flag: SUCCESS iff dry-run is off and pull, retag and push
\* each succeeded, DRY_RUN_SUCCESS iff dry-run is on and pull and retag each
\* succeeded, FAILURE otherwise; SUCCESS is never recorded before the push
\* has succeeded.
C6_StatusFunction ==
  script = "fabfile" =>
    \A i \in 1..Len(tasks) :
      LET on == tasks[i].dry_run = "YES"
          p == Succeeded(log[i], "pull")
          t == Succeeded(log[i], "tag")
          u == Succeeded(log[i], "push")
      IN  /\ result[i].status = "SUCCESS" => u
          /\ Finished(i) =>
               /\ result[i].status = "SUCCESS" <=> (~on /\ p /\ t /\ u)
               /\ result[i].status = "DRY_RUN_SUCCESS" <=> (on /\ p /\ t)
               /\ result[i].status = "FAILURE"
                    <=> ~((~on /\ p /\ t /\ u) \/ (on /\ p /\ t))

\* a request with dry-run off whose three steps all succeeded, after a retry
C6_Witness ==
  /\ script = "fabfile"
  /\ \E i \in 1..Len(tasks) :
       /\ Finished(i) /\ tasks[i].dry_run = "NO"
       /\ result[i].status = "SUCCESS"
       /\ OutcomesOf(log[i], "tag") = <<FALSE, TRUE>>

\* C7: once the results are collected the job fails (tag_images raises) iff
\* some collected result is FAILURE, and succeeds iff every result is SUCCESS
\* or DRY_RUN_SUCCESS.
C7_AggregateStatus ==
  (script = "fabfile" /\ mainPc \in {"returned", "raised"}) =>
    /\ mainPc = "raised"
         <=> \E k \in 1..Len(all_results) : all_results[k].status = "FAILURE"
    /\ mainPc = "returned"
         <=> \A k \in 1..Len(all_results) :
               all_results[k].status \in {"SUCCESS", "DRY_RUN_SUCCESS"}

\* a job failed by one request while another request did not fail
C7_Witness ==
  /\ script = "fabfile" /\ mainPc = "raised"
  /\ \E k \in 1..Len(all_results) : all_results[k].status = "FAILURE"
  /\ \E k \in 1..Len(all_results) : all_results[k].status \in {"SUCCESS", "DRY_RUN_SUCCESS"}

\* C8: a request whose source or destination tag is empty or missing is
\* rejected before any external command: no command is invoked for it and it
\* ends as a failure (both scripts).
C8_EmptyTagRejected ==
  /\ script = "fabfile" =>
       \A i \in 1..Len(tasks) :
         (tasks[i].source \in {"", None} \/ tasks[i].destination \in {"", None})
           => /\ log[i] = <<>>
              /\ Finished(i) => result[i].status = "FAILURE"
  /\ script = "tag_utils" =>
       ((tuPc # "start" /\ (src_tag = "" \/ dest_tag = ""))
           => tuLog = <<>> /\ tuPc # "completed")

\* C9: processing a request never raises to the caller: every failure,
\* including a step that exhausted its retries, ends in a normal return with
\* a FAILURE result whose message is the error of the failed step (both
\* scripts).
C9_NeverRaises ==
  /\ script = "fabfile" =>
       \A i \in 1..Len(tasks) :
         (Finished(i) /\ ~log[i][Len(log[i])].ok)
           => /\ result[i].status = "FAILURE"
              /\ result[i].message = ErrorOf(log[i][Len(log[i])].cmd)
  /\ script = "tag_utils" => tuPc # "raised"

\* C10: at most parallel_limit requests are inside process_image at once,
\* each of them on a worker thread of its own, and a worker leaves a request
\* only when that request has its result.
C10_BoundedWorkers ==
  /\ [](script = "fabfile" =>
          /\ Cardinality({i \in TaskIds : Running(i)}) <= parallel_limit
          /\ \A i \in TaskIds :
               Running(i) => Cardinality({t \in Threads : worker[t] = i}) = 1)
  /\ [][\A t \in Threads :
          (worker[t] # 0 /\ worker'[t] # worker[t])
            => (pc'[worker[t]] = "done" /\ worker'[t] = 0)]_vars

\* with a limit of 1, one request runs while the next one waits in the queue
C10_Witness ==
  /\ script = "fabfile" /\ parallel_limit = 1
  /\ Running(1) /\ pc[2] = "queued"

\* C11: whatever the order in which the workers finish, the k-th collected
\* result is the result of the k-th submitted request.
C11_SubmissionOrder ==
  script = "fabfile" =>
    /\ \A k \in 1..Len(all_results) :
         /\ Finished(k)
         /\ all_results[k] = result[k]
         /\ SameRequest(all_results[k], tasks[k])
    /\ Collected => Len(all_results) = Len(tasks)

\* the second request has its result while the first is still running and
\* nothing has been collected: the main thread waits for the first future
C11_Witness ==
  /\ script = "fabfile" /\ mainPc = "collect"
  /\ Len(tasks) = 2 /\ all_results = <<>>
  /\ Finished(2) /\ Running(1)
  /\ result[2].status = "FAILURE"

\* C12: a failed request does not touch the other requests: a step of one
\* request leaves every other request's state as it is, a produced result is
\* never changed, a finished request frees its worker, all requests have
\* their result once collection is over; and when the job is failed the
\* results file is already written with one record per submitted request.
C12_FailureIsolation ==
  /\ [](script = "fabfile" =>
          /\ mainPc = "raised" =>
               /\ Len(results_file) = Len(tasks)
               /\ \A k \in 1..Len(tasks) : results_file[k] = result[k]
          /\ Collected => \A i \in 1..Len(tasks) : Finished(i)
          /\ \A t \in Threads : worker[t] # 0 => Running(worker[t]))
  /\ [][\A i \in TaskIds :
          /\ log'[i] # log[i] =>
               \A j \in TaskIds \ {i} :
                 /\ log'[j] = log[j] /\ result'[j] = result[j]
                 /\ pc'[j] = pc[j] /\ attempt'[j] = attempt[j]
          /\ Finished(i) => result'[i] = result[i] /\ pc'[i] = pc[i]]_vars

\* the job failed on one request; the file holds that failure and the other
\* request's success
C12_Witness ==
  /\ script = "fabfile" /\ mainPc = "raised"
  /\ Len(results_file) = 2
  /\ results_file[1].status = "FAILURE"
  /\ results_file[2].status = "SUCCESS"

AllOk(lg) == \A k \in 1..Len(lg) : lg[k].ok

\* the state docker is left in by the commands of lg: the destination tag is
\* applied locally by a successful tag (nothing in lg removes it), and is on
\* the registry after a successful push
LocalTagApplied(lg) ==
  \E k \in 1..Len(lg) :
    /\ lg[k] = [cmd |-> "tag", ok |-> TRUE]
    /\ \A j \in (k + 1)..Len(lg) : lg[j].cmd \in {"pull", "tag", "push"}
RegistryUpdated(lg) == \E k \in 1..Len(lg) : lg[k] = [cmd |-> "push", ok |-> TRUE]

\* C13: two identical requests processed one after the other, with every
\* command succeeding, both end in SUCCESS with the same commands: the
\* second is not affected by the tag and registry state the first left.
C13_Idempotent ==
  script = "fabfile" =>
    \A i \in 1..Len(tasks) : \A j \in 1..Len(tasks) :
      (/\ i < j /\ tasks[i] = tasks[j] /\ tasks[i].dry_run = "NO"
       /\ Finished(i) /\ Finished(j) /\ AllOk(log[i]) /\ AllOk(log[j]))
      => /\ result[i].status = "SUCCESS" /\ result[j].status = "SUCCESS"
         /\ result[i] = result[j]
         /\ log[j] = <<[cmd |-> "pull", ok |-> TRUE], [cmd |-> "tag", ok |-> TRUE],
                       [cmd |-> "push", ok |-> TRUE]>>
         /\ log[i] = log[j]

\* with one worker the first request has tagged and pushed before the second,
\* identical, request starts; both succeeded
C13_Witness ==
  /\ script = "fabfile" /\ parallel_limit = 1 /\ Len(tasks) = 2
  /\ tasks[1] = tasks[2]
  /\ Finished(1) /\ Finished(2)
  /\ LocalTagApplied(log[1]) /\ RegistryUpdated(log[1])
  /\ AllOk(log[1]) /\ AllOk(log[2])
  /\ result[2].status = "SUCCESS"

\* C16: the delay between attempts is one constant: every wait of a run is
\* as long as its first wait, whatever the step and the request, and a step
\* does not wait after its last failed attempt (both scripts).
C16_FixedDelay ==
  /\ script = "fabfile" =>
       \A i \in 1..Len(tasks) :
         /\ \A k \in 1..Len(sleeps[i]) : \A j \in 1..Len(tasks) :
              \A m \in 1..Len(sleeps[j]) : sleeps[i][k] = sleeps[j][m]
         /\ \A c \in {"pull", "tag", "push"} :
              Exhausted(OutcomesOf(log[i], c)) => Len(sleeps[i]) < failures
  /\ script = "tag_utils" =>
       /\ \A k \in 1..Len(tuSleeps) : tuSleeps[k] = tuSleeps[1]
       /\ (tuPc = "raised" =>
            Len(tuSleeps) < Len(SelectSeq(tuCalls, LAMBDA e : ~e.ok)))

\* C17: no rollback: when the retag succeeded and the push failed on every
\* attempt, the request ends as FAILURE with the push error, the last command
\* run for it is the third failed push, only pull, tag and push were ever
\* run, the destination tag is still applied locally and the registry was
\* not updated.
C17_NoRollback ==
  script = "fabfile" =>
    \A i \in 1..Len(tasks) :
      (Succeeded(log[i], "tag") /\ Exhausted(OutcomesOf(log[i], "push")))
      => /\ Finished(i)
         /\ result[i].status = "FAILURE"
         /\ result[i].message = ErrorOf("push")
         /\ log[i][Len(log[i])] = [cmd |-> "push", ok |-> FALSE]
         /\ \A k \in 1..Len(log[i]) : log[i][k].cmd \in {"pull", "tag", "push"}
         /\ LocalTagApplied(log[i])
         /\ ~RegistryUpdated(log[i])

\* pull and tag succeeded, the push failed three times
C17_Witness ==
  /\ script = "fabfile"
  /\ \E i \in 1..Len(tasks) :
       /\ Finished(i)
       /\ log[i] = <<[cmd |-> "pull", ok |-> TRUE], [cmd |-> "tag", ok |-> TRUE],
                     [cmd |-> "push", ok |-> FALSE], [cmd |-> "push", ok |-> FALSE],
                     [cmd |-> "push", ok |-> FALSE]>>

\* C18: dry-run skips only the push: a dry-run request that ends well has run
\* the pull and the retag (once each when they succeed first time) and no
\* push, and its status is DRY_RUN_SUCCESS (both scripts).
C18_DryRunSkipsOnlyPush ==
  /\ script = "fabfile" =>
       \A i \in 1..Len(tasks) :
         (Finished(i) /\ tasks[i].dry_run = "YES" /\ AllOk(log[i]))
         => /\ log[i] = <<[cmd |-> "pull", ok |-> TRUE], [cmd |-> "tag", ok |-> TRUE]>>
            /\ result[i].status = "DRY_RUN_SUCCESS"
  /\ script = "tag_utils" =>
       ((tuPc = "completed" /\ tuArgs.dry_run \in {"YES", "yes"})
        => /\ Invocations(tuLog, "pull") >= 1
           /\ Invocations(tuLog, "tag") >= 1
           /\ Invocations(tuLog, "push") = 0)

\* C20: a process_image call makes at most 3 x RETRIES command invocations,
\* every started call gets its result, and under fair scheduling of the main
\* thread and the workers the job ends (returned, raised, or rejected before
\* any request was built) with one collected result per request.
C20_Termination ==
  /\ [](\A i \in TaskIds : Len(log[i]) <= 3 * RETRIES)
  /\ \A i \in TaskIds : (pc[i] = "queued") ~> Finished(i)
  /\ <>[](/\ mainPc \in {"returned", "raised", "value_error"}
          /\ Len(all_results) = Len(tasks)
          /\ \A i \in 1..Len(tasks) : Finished(i) /\ all_results[i] = result[i])

\* a finished job one of whose requests needed all nine invocations
C20_Witness ==
  /\ script = "fabfile" /\ mainPc = "returned"
  /\ Len(tasks) = 2 /\ Len(all_results) = Len(tasks)
  /\ \E i \in 1..Len(tasks) : Len(log[i]) = 3 * RETRIES /\ result[i].status = "SUCCESS"

\* C14: when delivery fails, the caller of the notifier can tell: the call
\* does not end in the normal return it has after a delivery; and the send
\* block was executed exactly once.
C14_DeliveryFailureReported ==
  script = "send_email" =>
    ((emPc \in {"returned", "raised"} /\ emDelivery = "failed")
       => /\ emPc = "raised"
          /\ emSendAttempts = 1)

\* C15: when the template chosen for the status does not exist, the body is
\* the inline error text naming that template, the call does not abort at
\* the body, and it goes on through the attachment step to one delivery
\* attempt and returns.
C15_MissingTemplateDegrades ==
  /\ [](script = "send_email" =>
          /\ (emPc \in {"attach", "send", "returned"}
               /\ theme_of(emArgs.status).template \notin emTemplates)
              => /\ emBody.kind = "error_not_found"
                 /\ emBody.name = theme_of(emArgs.status).template
                 /\ emParts[1] = "html"
          /\ emPc = "raised" => emArgs.results_file = "not_given"
          /\ emPc = "returned" => emSendAttempts = 1)
  /\ [][script = "send_email" =>
          /\ emPc = "body" => emPc' = "attach"
          /\ emPc = "attach" => emPc' = "send"
          /\ emPc = "send" => emPc' = "returned"]_vars

\* the failure template is missing; the notification was attempted with the
\* inline error as its body and the log attached
C15_Witness ==
  /\ script = "send_email" /\ emPc = "returned"
  /\ emArgs.status = "FAILURE" /\ "email_failure.html" \notin emTemplates
  /\ emBody.kind = "error_not_found"
  /\ emParts = <<"html", "log">>
  /\ emSendAttempts = 1

\* C19: a results file that exists but is not JSON, with status SUCCESS, is
\* notified as a failure: FAILURE subject and the failure template.
C19_CorruptResultsIsFailure ==
  script = "send_email" =>
    ((emPc \in {"attach", "send", "returned"}
      /\ emArgs.results_file = "corrupt" /\ emArgs.status = "SUCCESS")
     => /\ emSubject.subject_status = "FAILURE"
        /\ emBody.name = "email_failure.html")
====
